---------------------------- MODULE Spec2Model ----------------------------
(***************************************************************************)
(* asciitl: parse_activities, get_time_points and build_ascii_table of     *)
(* main.py, and the order in which main() calls them.                      *)
(*                                                                         *)
(* A Python str is a sequence of one-character strings.  Positions are     *)
(* 1-based here and 0-based in the source; where the source keeps an index *)
(* (start_idx, end_idx) the model keeps the 0-based value.                 *)
(***************************************************************************)
EXTENDS Integers, Sequences, FiniteSets, TLC

VARIABLES text, activities, time_points, table, pc

vars == <<text, activities, time_points, table, pc>>

---------------------------------------------------------------------------
(* Characters and the str methods the source calls.                        *)

Digits == {"0", "1", "2", "3", "4", "5", "6", "7", "8", "9"}

\* What str.strip() removes and what \s matches, among the characters used.
Whitespace == {" ", "\t", "\n", "\r"}

\* The line boundaries of str.splitlines(), among the characters used.
LineBreaks == {"\n", "\r"}

\* ord(c): the code point, which is what str comparison goes by.
Ord(c) ==
    CASE c = "\t" -> 9
      [] c = "\n" -> 10
      [] c = "\r" -> 13
      [] c = " " -> 32
      [] c = "-" -> 45
      [] c = "0" -> 48
      [] c = "1" -> 49
      [] c = "2" -> 50
      [] c = "3" -> 51
      [] c = "4" -> 52
      [] c = "5" -> 53
      [] c = "6" -> 54
      [] c = "7" -> 55
      [] c = "8" -> 56
      [] c = "9" -> 57
      [] c = ":" -> 58
      [] c = "A" -> 65
      [] c = "B" -> 66
      [] c = "R" -> 82
      [] c = "W" -> 87
      [] c = "a" -> 97
      [] c = "c" -> 99
      [] c = "e" -> 101
      [] c = "i" -> 105
      [] c = "k" -> 107
      [] c = "n" -> 110
      [] c = "o" -> 111
      [] c = "r" -> 114
      [] c = "s" -> 115
      [] c = "t" -> 116
      [] c = "v" -> 118
      [] c = "x" -> 120
      [] c = "y" -> 121
      [] c = "|" -> 124

\* c * n, the empty str for n <= 0
Rep(c, n) == [i \in 1..n |-> c]

Max2(a, b) == IF a >= b THEN a ELSE b

\* a < b on str: the first differing code point decides, a proper prefix is less.
RECURSIVE str_lt(_, _)
str_lt(a, b) ==
    IF b = <<>> THEN FALSE
    ELSE IF a = <<>> THEN TRUE
    ELSE IF Head(a) = Head(b) THEN str_lt(Tail(a), Tail(b))
    ELSE Ord(Head(a)) < Ord(Head(b))

\* str.lstrip() and str.strip()
RECURSIVE str_lstrip(_)
str_lstrip(s) ==
    IF s # <<>> /\ Head(s) \in Whitespace THEN str_lstrip(Tail(s)) ELSE s

RECURSIVE str_rstrip(_)
str_rstrip(s) ==
    IF s # <<>> /\ s[Len(s)] \in Whitespace
    THEN str_rstrip(SubSeq(s, 1, Len(s) - 1))
    ELSE s

str_strip(s) == str_rstrip(str_lstrip(s))

\* str.splitlines(): the lines without their boundaries; "\r\n" is one
\* boundary, and a boundary at the very end opens no further line.
RECURSIVE str_splitlines(_)
str_splitlines(s) ==
    IF s = <<>> THEN <<>>
    ELSE IF \A i \in 1..Len(s) : s[i] \notin LineBreaks THEN <<s>>
    ELSE LET b    == CHOOSE i \in 1..Len(s) :
                         s[i] \in LineBreaks /\ \A k \in 1..(i - 1) : s[k] \notin LineBreaks
             next == IF s[b] = "\r" /\ b < Len(s) /\ s[b + 1] = "\n" THEN b + 2 ELSE b + 1
         IN  <<SubSeq(s, 1, b - 1)>> \o str_splitlines(SubSeq(s, next, Len(s)))

\* str.rjust(width), which pads on the left
str_rjust(s, width) == Rep(" ", width - Len(s)) \o s

\* str.ljust(width): padded with spaces on the right, never cut.
str_ljust(s, width) == s \o Rep(" ", width - Len(s))

\* str.center(width): CPython puts marg/2 + (marg & width & 1) spaces on the left.
str_center(s, width) ==
    IF Len(s) >= width THEN s
    ELSE LET marg == width - Len(s)
             left == (marg \div 2) + (IF marg % 2 = 1 /\ width % 2 = 1 THEN 1 ELSE 0)
         IN  Rep(" ", left) \o s \o Rep(" ", marg - left)

---------------------------------------------------------------------------
(* parse_activities                                                        *)

\* \d{2}:\d{2} at position i of s
IsTime(s, i) ==
    /\ i + 4 <= Len(s)
    /\ s[i] \in Digits
    /\ s[i + 1] \in Digits
    /\ s[i + 2] = ":"
    /\ s[i + 3] \in Digits
    /\ s[i + 4] \in Digits

\* a greedy \s*: the position after the run of whitespace that starts at i
RECURSIVE SkipSpace(_, _)
SkipSpace(s, i) ==
    IF i <= Len(s) /\ s[i] \in Whitespace THEN SkipSpace(s, i + 1) ELSE i

NoMatch == [matched |-> FALSE, groups |-> <<>>]

\* the pattern with \s* where the source has \s+ before the name
re_match_star(s) ==
    IF ~IsTime(s, 1) THEN NoMatch
    ELSE LET i1 == SkipSpace(s, 6) IN
    IF ~(i1 <= Len(s) /\ s[i1] = "-") THEN NoMatch
    ELSE LET i2 == SkipSpace(s, i1 + 1) IN
    IF ~IsTime(s, i2) THEN NoMatch
    ELSE LET i3 == SkipSpace(s, i2 + 5) IN
         [matched |-> TRUE,
          groups  |-> <<SubSeq(s, 1, 5), SubSeq(s, i2, i2 + 4), SubSeq(s, i3, Len(s))>>]

\* re.match(pattern, s) for (\d{2}:\d{2})\s*-\s*(\d{2}:\d{2})\s+(.*): anchored at
\* the start of s.  No whitespace is a "-" or a digit, and (.*) takes whatever is
\* left of a line, so the greedy runs are the match and nothing is given back.
re_match(s) ==
    IF ~IsTime(s, 1) THEN NoMatch
    ELSE LET i1 == SkipSpace(s, 6) IN
    IF ~(i1 <= Len(s) /\ s[i1] = "-") THEN NoMatch
    ELSE LET i2 == SkipSpace(s, i1 + 1) IN
    IF ~IsTime(s, i2) THEN NoMatch
    ELSE LET i3 == SkipSpace(s, i2 + 5) IN
    IF i3 = i2 + 5 THEN NoMatch
    ELSE [matched |-> TRUE,
          groups  |-> <<SubSeq(s, 1, 5), SubSeq(s, i2, i2 + 4), SubSeq(s, i3, Len(s))>>]

Activity(start, end, name) == [start |-> start, end |-> end, name |-> name]

\* the loop over text.splitlines(), the lines still to read in `lines`
RECURSIVE parse_lines(_)
parse_lines(lines) ==
    IF lines = <<>> THEN <<>>
    ELSE LET match == re_match(str_strip(Head(lines))) IN
         (IF match.matched
          THEN <<Activity(match.groups[1], match.groups[2], match.groups[3])>>
          ELSE <<>>) \o parse_lines(Tail(lines))

parse_activities(t) == parse_lines(str_splitlines(t))

---------------------------------------------------------------------------
(* get_time_points                                                         *)

\* the loop that adds only act.start to the set
RECURSIVE collect_starts(_)
collect_starts(acts) ==
    IF acts = <<>> THEN {}
    ELSE {Head(acts).start} \cup collect_starts(Tail(acts))

\* points after the loop: act.start and act.end of every activity, as a set
RECURSIVE collect_points(_)
collect_points(acts) ==
    IF acts = <<>> THEN {}
    ELSE {Head(acts).start, Head(acts).end} \cup collect_points(Tail(acts))

\* sorted(points): the members of a set of str in ascending str order
RECURSIVE sorted(_)
sorted(points) ==
    IF points = {} THEN <<>>
    ELSE LET least == CHOOSE x \in points : \A y \in points \ {x} : str_lt(x, y)
         IN  <<least>> \o sorted(points \ {least})

get_time_points(acts) == sorted(collect_points(acts))

---------------------------------------------------------------------------
(* build_ascii_table                                                       *)

MinNameWidth == 8

MinTimeWidth == 7

\* max(len(s) for s in strs, default=dflt)
RECURSIVE max_len(_, _)
max_len(strs, dflt) ==
    IF strs = <<>> THEN dflt
    ELSE IF Tail(strs) = <<>> THEN Len(Head(strs))
    ELSE Max2(Len(Head(strs)), max_len(Tail(strs), dflt))

names_of(acts) == [i \in 1..Len(acts) |-> acts[i].name]

\* max(8, max((len(a.name) for a in activities), default=8))
activity_col_width(acts) == Max2(MinNameWidth, max_len(names_of(acts), MinNameWidth))

\* the width without the minimum of 7
time_col_width_nomin(tps) == max_len(tps, 0)

\* max(7, max(len(tp) for tp in time_points)), for a non-empty time_points
time_col_width(tps) == Max2(MinTimeWidth, max_len(tps, 0))

\* time_points.index(x) as a 0-based position, -1 where the source raises ValueError
index(tps, x) ==
    IF \E j \in 1..Len(tps) : tps[j] = x
    THEN (CHOOSE j \in 1..Len(tps) : tps[j] = x /\ \A k \in 1..(j - 1) : tps[k] # x) - 1
    ELSE -1

\* the bar with an end cell as wide as the others
bar_cells_wide(start_idx, end_idx, n, w) ==
    [j \in 1..n |->
        LET i == j - 1 IN
        IF i = start_idx
        THEN <<"|">> \o Rep("-", w - 2) \o (IF start_idx = end_idx THEN <<"|">> ELSE <<"-">>)
        ELSE IF start_idx < i /\ i < end_idx THEN Rep("-", w)
        ELSE IF i = end_idx /\ end_idx > start_idx THEN Rep("-", w - 1) \o <<"|">>
        ELSE Rep(" ", w)]

\* cells once the bar is drawn: blank cells, then cells[start_idx], the cells of
\* range(start_idx + 1, end_idx), and cells[end_idx] if end_idx > start_idx
bar_cells(start_idx, end_idx, n, w) ==
    [j \in 1..n |->
        LET i == j - 1 IN
        IF i = start_idx
        THEN <<"|">> \o Rep("-", w - 2) \o (IF start_idx = end_idx THEN <<"|">> ELSE <<"-">>)
        ELSE IF start_idx < i /\ i < end_idx THEN Rep("-", w)
        ELSE IF i = end_idx /\ end_idx > start_idx THEN Rep("-", w - 2) \o <<"|">>
        ELSE Rep(" ", w)]

\* for cell in cells: row_str += f" {cell}"
RECURSIVE join_cells(_)
join_cells(cells) ==
    IF cells = <<>> THEN <<>>
    ELSE <<" ">> \o Head(cells) \o join_cells(Tail(cells))

row_str(act, start_idx, end_idx, tps, acw, tcw) ==
    <<" ", " ">> \o str_ljust(act.name, acw) \o <<" ", " ">>
        \o join_cells(bar_cells(start_idx, end_idx, Len(tps), tcw)) \o <<"\n">>

\* the loop over activities with a row for every activity, found or not
RECURSIVE rows_noskip(_, _, _, _)
rows_noskip(acts, tps, acw, tcw) ==
    IF acts = <<>> THEN <<>>
    ELSE row_str(Head(acts), index(tps, Head(acts).start), index(tps, Head(acts).end),
                 tps, acw, tcw)
           \o rows_noskip(Tail(acts), tps, acw, tcw)

\* the loop over activities: what it adds to table
RECURSIVE rows(_, _, _, _)
rows(acts, tps, acw, tcw) ==
    IF acts = <<>> THEN <<>>
    ELSE LET act       == Head(acts)
             start_idx == index(tps, act.start)
             end_idx   == index(tps, act.end)
         IN  (IF start_idx = -1 \/ end_idx = -1
              THEN <<>>
              ELSE row_str(act, start_idx, end_idx, tps, acw, tcw))
               \o rows(Tail(acts), tps, acw, tcw)

centered(tps, tcw) == [j \in 1..Len(tps) |-> str_center(tps[j], tcw)]

header(tps, acw, tcw) ==
    <<" ", " ">> \o str_center(<<"a", "c", "t", "i", "v", "i", "t", "y">>, acw)
        \o <<" ", " ">> \o join_cells(centered(tps, tcw)) \o <<"\n">>

\* the separator with acw dashes under the name column
sep_narrow(tps, acw, tcw) ==
    <<" ">> \o Rep("-", acw) \o <<" ">>
        \o join_cells([j \in 1..Len(tps) |-> Rep("-", tcw)]) \o <<"\n">>

sep(tps, acw, tcw) ==
    <<" ">> \o Rep("-", acw + 2) \o <<" ">>
        \o join_cells([j \in 1..Len(tps) |-> Rep("-", tcw)]) \o <<"\n">>

\* The call's outcome: the table, or the ValueError of max() of an empty sequence.
build_ascii_table(acts, tps) ==
    IF tps = <<>> THEN [raised |-> TRUE, value |-> <<>>]
    ELSE LET acw == activity_col_width(acts)
             tcw == time_col_width(tps)
         IN  [raised |-> FALSE,
              value  |-> sep(tps, acw, tcw) \o header(tps, acw, tcw) \o sep(tps, acw, tcw)
                           \o rows(acts, tps, acw, tcw) \o sep(tps, acw, tcw)]

---------------------------------------------------------------------------
(* Inputs                                                                  *)

MaxLines == 3

MaxActs == 2

MaxAxis == 3

T0900 == <<"0", "9", ":", "0", "0">>

T0915 == <<"0", "9", ":", "1", "5">>

T1000 == <<"1", "0", ":", "0", "0">>

T2599 == <<"2", "5", ":", "9", "9">>

T100000 == <<"1", "0", ":", "0", "0", ":", "0", "0">>

T930 == <<"9", ":", "3", "0">>

SP == <<" ">>

DASH == <<"-">>

Break == <<"B", "r", "e", "a", "k">>

WorkSession == <<"W", "o", "r", "k", " ", "s", "e", "s", "s", "i", "o", "n">>

\* The lines a text is made of: matching lines (with and without blanks round the
\* "-", indented, with a tab before the name, with a 12-character name, with an
\* end before the start, with equal and out-of-range times) and lines the pattern
\* rejects (blank, name glued to the time, one-digit hour, no "-", no name,
\* text before the time).
InputLines ==
    { T0900 \o SP \o DASH \o SP \o T0915 \o SP \o <<"A">>,
      T0915 \o DASH \o T1000 \o SP \o Break,
      T0900 \o DASH \o T0915 \o Break,
      <<>>,
      SP \o T1000 \o SP \o DASH \o SP \o SP \o T0900 \o SP \o <<"\t", "B", " ", "c">> \o SP,
      <<"9", ":", "0", "0">> \o SP \o DASH \o SP \o T0915 \o SP \o <<"A">>,
      T0900 \o SP \o T0915 \o SP \o <<"A">>,
      T0900 \o SP \o DASH \o SP \o T0915 \o SP,
      <<"x">> \o SP \o T0900 \o SP \o DASH \o SP \o T0915 \o SP \o <<"A">>,
      T2599 \o SP \o DASH \o SP \o T2599 \o SP \o WorkSession,
      T0900 \o SP \o DASH \o SP \o T1000 \o SP \o <<"t", "e", "a", "\r">> }

\* the sequences over S of length at most n
RECURSIVE SeqsUpTo(_, _)
SeqsUpTo(S, n) ==
    IF n = 0 THEN {<<>>}
    ELSE LET shorter == SeqsUpTo(S, n - 1)
         IN  shorter \cup {Append(q, x) : q \in shorter, x \in S}

\* "\n".join(lines)
RECURSIVE JoinLines(_)
JoinLines(lines) ==
    IF lines = <<>> THEN <<>>
    ELSE IF Tail(lines) = <<>> THEN Head(lines)
    ELSE Head(lines) \o <<"\n">> \o JoinLines(Tail(lines))

Texts == {JoinLines(ls) : ls \in SeqsUpTo(InputLines, MaxLines)}

\* Activities built directly: labels need not be HH:MM, nor start before end.
InputActivities ==
    { Activity(T0900, T0915, <<"A">>),
      Activity(T0900, T100000, WorkSession),
      Activity(T100000, T0900, <<"R", "e", "v">>),
      Activity(T0915, T0915, <<>>),
      Activity(T100000, T930, <<"B">>) }

\* The labels of a time_points given by the caller: any order, repeats allowed.
AxisLabels == {T0900, T0915, T100000}

---------------------------------------------------------------------------
(* main(): the calls in the order main() makes them                        *)

Init ==
    /\ text \in Texts
    /\ activities = <<>>
    /\ time_points = <<>>
    /\ table = <<>>
    /\ pc = "main"

\* if text_input: is false for the empty text
NoInput ==
    /\ pc = "main"
    /\ text = <<>>
    /\ pc' = "idle"
    /\ UNCHANGED <<text, activities, time_points, table>>

ParseActivities ==
    /\ pc = "main"
    /\ text # <<>>
    /\ activities' = parse_activities(text)
    /\ pc' = "parsed"
    /\ UNCHANGED <<text, time_points, table>>

\* if not activities: st.warning(...); return
Warn ==
    /\ pc = "parsed"
    /\ activities = <<>>
    /\ pc' = "warned"
    /\ UNCHANGED <<text, activities, time_points, table>>

GetTimePoints ==
    /\ pc = "parsed"
    /\ activities # <<>>
    /\ time_points' = get_time_points(activities)
    /\ pc' = "axis"
    /\ UNCHANGED <<text, activities, table>>

BuildAsciiTable ==
    /\ pc = "axis"
    /\ LET r == build_ascii_table(activities, time_points)
       IN  /\ table' = r.value
           /\ pc' = IF r.raised THEN "raised" ELSE "shown"
    /\ UNCHANGED <<text, activities, time_points>>

Next == NoInput \/ ParseActivities \/ Warn \/ GetTimePoints \/ BuildAsciiTable

Spec == Init /\ [][Next]_vars

---------------------------------------------------------------------------
(* The functions called directly, on activities and a time_points that need *)
(* not come from parse_activities and get_time_points                       *)

InitCore ==
    /\ text = <<>>
    /\ activities \in SeqsUpTo(InputActivities, MaxActs)
    /\ time_points \in SeqsUpTo(AxisLabels, MaxAxis)
    /\ table = <<>>
    /\ pc = "call"

\* time_points = get_time_points(activities)
CallGetTimePoints ==
    /\ pc = "call"
    /\ time_points' = get_time_points(activities)
    /\ pc' = "derived"
    /\ UNCHANGED <<text, activities, table>>

\* build_ascii_table(activities, time_points), on the caller's time_points or
\* on the one get_time_points returned
CallBuildAsciiTable ==
    /\ pc \in {"call", "derived"}
    /\ LET r == build_ascii_table(activities, time_points)
       IN  /\ table' = r.value
           /\ pc' = IF r.raised THEN "raised" ELSE "returned"
    /\ UNCHANGED <<text, activities, time_points>>

NextCore == CallGetTimePoints \/ CallBuildAsciiTable

SpecCore == InitCore /\ [][NextCore]_vars

---------------------------------------------------------------------------
(* What the properties are stated with                                     *)

Range(q) == {q[i] : i \in 1..Len(q)}

MaxOf(S) == CHOOSE m \in S : \A k \in S : m >= k

MinOf(S) == CHOOSE m \in S : \A k \in S : m <= k

\* the lines of a text in which every line ends with "\n"
RECURSIVE LinesOf(_)
LinesOf(s) ==
    IF \A i \in 1..Len(s) : s[i] # "\n" THEN (IF s = <<>> THEN <<>> ELSE <<s>>)
    ELSE LET b == MinOf({i \in 1..Len(s) : s[i] = "\n"})
         IN  <<SubSeq(s, 1, b - 1)>> \o LinesOf(SubSeq(s, b + 1, Len(s)))

TableLines == LinesOf(table)

\* a is before b in lexicographic order of code points
LexLess(a, b) ==
    \E k \in 1..(Len(b)) :
        /\ \A i \in 1..(k - 1) : i <= Len(a) /\ a[i] = b[i]
        /\ \/ k = Len(a) + 1
           \/ k <= Len(a) /\ Ord(a[k]) < Ord(b[k])

\* both labels of the activity occur in time_points
Found(act) == act.start \in Range(time_points) /\ act.end \in Range(time_points)

\* the activities that get a row, in the order given
Rendered == SelectSeq(activities, Found)

\* the 0-based position of the first occurrence of a label in time_points
FirstPos(x) == MinOf({i \in 1..Len(time_points) : time_points[i] = x}) - 1

NameWidth == MaxOf({8} \cup {Len(activities[i].name) : i \in 1..Len(activities)})

TimeWidth == MaxOf({7} \cup {Len(time_points[j]) : j \in 1..Len(time_points)})

Dashes(n) == [i \in 1..n |-> "-"]

Blanks(n) == [i \in 1..n |-> " "]

\* the i-th data row of the table
DataRow(i) == TableLines[3 + i]

\* Where cell j (0-based) of a data row begins, when every cell before it is
\* `TimeWidth` wide but for `short` characters.
CellAt(j, short) == NameWidth + 4 + j * (TimeWidth + 1) + 2 - short

Cut(row, from, n) == SubSeq(row, from, from + n - 1)

---------------------------------------------------------------------------
(* C1  get_time_points                                                     *)

Labels == UNION {{activities[i].start, activities[i].end} : i \in 1..Len(activities)}

\* C1: what get_time_points returns has no duplicates, is ascending in
\* lexicographic order of its strings, and holds exactly the start and end
\* labels of the activities; for no activities it is the empty sequence.
C1_TimePoints ==
    pc = "derived" =>
        /\ \A i, j \in 1..Len(time_points) : i < j => LexLess(time_points[i], time_points[j])
        /\ Range(time_points) = Labels
        /\ (activities = <<>> => time_points = <<>>)

\* two activities sharing "10:00:00", and "9:30" sorted after "10:00:00"
C1_Witness ==
    /\ pc = "derived"
    /\ Len(activities) = 2
    /\ time_points = <<T0900, T100000, T930>>

---------------------------------------------------------------------------
(* C2  parse_activities                                                    *)

TimeText(s) ==
    /\ Len(s) = 5
    /\ s[3] = ":"
    /\ \A i \in {1, 2, 4, 5} : s[i] \in Digits

AllSpace(s) == \A i \in 1..Len(s) : s[i] \in Whitespace

\* s is HH:MM, blanks, "-" at p, blanks, HH:MM at q, at least one blank, and the
\* name from r on
Fits(s, p, q, r) ==
    /\ TimeText(SubSeq(s, 1, 5))
    /\ AllSpace(SubSeq(s, 6, p - 1))
    /\ s[p] = "-"
    /\ AllSpace(SubSeq(s, p + 1, q - 1))
    /\ TimeText(SubSeq(s, q, q + 4))
    /\ r > q + 5
    /\ AllSpace(SubSeq(s, q + 5, r - 1))

Splits(s) ==
    UNION { UNION { {<<p, q, r>> : r \in {r \in (q + 6)..(Len(s) + 1) : Fits(s, p, q, r)}}
                    : q \in {q \in (p + 1)..(Len(s) - 4) :
                                AllSpace(SubSeq(s, p + 1, q - 1))} }
            : p \in {p \in 6..Len(s) : s[p] = "-"} }

MatchesPattern(line) == Splits(str_strip(line)) # {}

\* the lines of the text that match the pattern once trimmed, in their order
MatchingLines == SelectSeq(str_splitlines(text), MatchesPattern)

\* C2: parse_activities returns one Activity per line that matches the pattern
\* after trimming, in the order of those lines, and nothing for any other line.
C2_Parse ==
    pc \in {"parsed", "warned", "axis", "shown"} =>
        /\ Len(activities) = Len(MatchingLines)
        /\ \A i \in 1..Len(activities) :
              LET s == str_strip(MatchingLines[i]) IN
              \E x \in Splits(s) :
                  activities[i] =
                      Activity(SubSeq(s, 1, 5), SubSeq(s, x[2], x[2] + 4),
                               SubSeq(s, x[3], Len(s)))

\* three lines: a matching one, "09:00-09:15Break", a matching one with an
\* earlier start; two activities in the order of the lines
C2_Witness ==
    /\ pc = "parsed"
    /\ Len(str_splitlines(text)) = 3
    /\ str_splitlines(text)[2] = T0900 \o DASH \o T0915 \o Break
    /\ Len(activities) = 2
    /\ activities[1].start = T0915
    /\ activities[2].start = T0900

---------------------------------------------------------------------------
(* C3  the number of lines, and activities without a row                   *)

\* C3: with a non-empty time_points, build_ascii_table raises nothing and returns
\* k + 4 lines, k the number of activities whose start and end are both in
\* time_points; an activity with a label that is not there gets no row.
C3_LineCount ==
    (pc \in {"returned", "raised"} /\ time_points # <<>>) =>
        /\ pc = "returned"
        /\ Len(TableLines) = Len(Rendered) + 4

\* two activities, one of them with a label that is not in time_points
C3_Witness ==
    /\ pc = "returned"
    /\ Len(activities) = 2
    /\ Len(Rendered) = 1

---------------------------------------------------------------------------
(* C4  no activities                                                       *)

SeparatorLine(gap) ==
    Blanks(gap) \o Dashes(NameWidth + 2) \o Blanks(gap)
        \o [k \in 1..(Len(time_points) * (TimeWidth + 1)) |->
               IF k % (TimeWidth + 1) = 1 THEN " " ELSE "-"]

\* the header line: "activity" in a name column of 8, then every label in a
\* column of TimeWidth, after one blank
HeaderOfEight(line) ==
    /\ Len(line) = 12 + Len(time_points) * (TimeWidth + 1)
    /\ Cut(line, 1, 12) = Blanks(2) \o <<"a", "c", "t", "i", "v", "i", "t", "y">> \o Blanks(2)
    /\ \A j \in 1..Len(time_points) :
          /\ line[12 + (j - 1) * (TimeWidth + 1) + 1] = " "
          /\ str_strip(Cut(line, 12 + (j - 1) * (TimeWidth + 1) + 2, TimeWidth))
                = time_points[j]

OnlyHeaderAndSeparators ==
    /\ Len(TableLines) = 4
    /\ NameWidth = 8
    /\ TableLines[1] = SeparatorLine(1)
    /\ HeaderOfEight(TableLines[2])
    /\ TableLines[3] = TableLines[1]
    /\ TableLines[4] = TableLines[1]

\* C4 as claimed: build_ascii_table on no activities and on the time_points that
\* get_time_points derives from them is no error and returns the header and
\* separator lines alone, the name column 8 wide and the time columns 7 wide.
C4_AsClaimed ==
    (pc \in {"returned", "raised"} /\ activities = <<>>
        /\ time_points = get_time_points(activities)) =>
        /\ pc = "returned"
        /\ OnlyHeaderAndSeparators
        /\ TimeWidth = 7

\* C4 (amended): build_ascii_table on no activities returns the header and
\* separator lines alone, the name column 8 wide and the time columns
\* max(7, longest label) wide, when time_points is not empty; on the empty
\* time_points that get_time_points derives from no activities it raises.
C4_NoActivities ==
    (pc \in {"returned", "raised"} /\ activities = <<>>) =>
        IF time_points = <<>>
        THEN pc = "raised" /\ time_points = get_time_points(activities)
        ELSE pc = "returned" /\ OnlyHeaderAndSeparators

\* no activities, two 5-character labels
C4_Witness ==
    /\ pc = "returned"
    /\ activities = <<>>
    /\ time_points = <<T0915, T0900>>

---------------------------------------------------------------------------
(* C5  main(): parse, derive the axis, build                               *)

\* C5: in main(), once get_time_points has run every parsed activity's start and
\* end are in time_points, and the table built has len(activities) + 4 lines.
C5_Pipeline ==
    /\ pc \in {"axis", "shown", "raised"} =>
          \A i \in 1..Len(activities) : Found(activities[i])
    /\ pc \in {"shown", "raised"} =>
          /\ pc = "shown"
          /\ Len(TableLines) = Len(activities) + 4

\* three activities parsed and shown
C5_Witness ==
    /\ pc = "shown"
    /\ Len(activities) = 3
    /\ Len(time_points) = 3

---------------------------------------------------------------------------
(* C6  the data rows and their name field                                  *)

\* C6: the data rows are the activities that have a row, in the order given, and
\* the i-th row begins with two blanks, the i-th such activity's name padded on
\* the right with blanks to max(8, longest name of all activities given), and two
\* blanks; the cells follow.
C6_Rows ==
    pc = "returned" =>
        /\ Len(TableLines) = Len(Rendered) + 4
        /\ \A i \in 1..Len(Rendered) :
              /\ Cut(DataRow(i), 1, NameWidth + 4)
                    = Blanks(2) \o Rendered[i].name
                        \o Blanks(NameWidth - Len(Rendered[i].name)) \o Blanks(2)
              /\ Len(DataRow(i)) >= NameWidth + 4 + Len(time_points) * TimeWidth

\* two rows, the later start first; the names are shorter than the column
C6_Witness ==
    /\ pc = "returned"
    /\ Len(Rendered) = 2
    /\ LexLess(activities[2].start, activities[1].start)
    /\ Len(activities[1].name) < NameWidth
    /\ activities[1].name # activities[2].name

---------------------------------------------------------------------------
(* C7  the bar                                                             *)

StartIdx(i) == FirstPos(Rendered[i].start)

EndIdx(i) == FirstPos(Rendered[i].end)

\* C7: in the row of an activity with start_idx <= end_idx and w the time column
\* width (at least 7): for start_idx = end_idx the bar is one cell, "|", w - 2
\* dashes, "|"; otherwise the start cell is "|" and w - 1 dashes, every cell
\* strictly between is w dashes, and the end cell is w - 2 dashes and "|", which
\* is w - 1 characters.
C7_Bar ==
    pc = "returned" =>
        /\ TimeWidth >= 7
        /\ \A i \in 1..Len(Rendered) :
              LET row == DataRow(i)
                  w   == TimeWidth
                  s   == StartIdx(i)
                  e   == EndIdx(i)
              IN  /\ s = e =>
                        Cut(row, CellAt(s, 0), w) = <<"|">> \o Dashes(w - 2) \o <<"|">>
                  /\ s < e =>
                        /\ Cut(row, CellAt(s, 0), w) = <<"|">> \o Dashes(w - 1)
                        /\ \A j \in (s + 1)..(e - 1) : Cut(row, CellAt(j, 0), w) = Dashes(w)
                        /\ Cut(row, CellAt(e, 0), w - 1) = Dashes(w - 2) \o <<"|">>
                        /\ \/ CellAt(e, 0) + w - 1 = Len(row) + 1
                           \/ row[CellAt(e, 0) + w - 1] = " " /\ e + 1 < Len(time_points)
                        /\ Len(row) = NameWidth + 4 + Len(time_points) * (w + 1) - 1

\* a bar over three columns, and a bar of one cell
C7_Witness ==
    /\ pc = "returned"
    /\ Len(Rendered) = 2
    /\ StartIdx(1) + 2 = EndIdx(1)
    /\ StartIdx(2) = EndIdx(2)

---------------------------------------------------------------------------
(* C8  the cells off the bar                                               *)

\* cell j of the i-th data row, every cell after the end cell of a bar of two or
\* more cells beginning one character early
CellOf(i, j) ==
    Cut(DataRow(i),
        CellAt(j, IF StartIdx(i) < EndIdx(i) /\ j > EndIdx(i) THEN 1 ELSE 0),
        TimeWidth)

\* C8: in every data row, every cell with a column index outside
\* [start_idx, end_idx] is blank, also when end_idx < start_idx.
C8_AsClaimed ==
    pc = "returned" =>
        \A i \in 1..Len(Rendered) :
            \A j \in 0..(Len(time_points) - 1) :
                (j < StartIdx(i) \/ j > EndIdx(i)) => CellOf(i, j) = Blanks(TimeWidth)

---------------------------------------------------------------------------
(* C9  the separator lines                                                 *)

\* C9 as claimed: a separator line is two blanks, name_col_width + 2 dashes, two
\* blanks, then a blank and time_col_width dashes per time point; lines 1, 3 and
\* the last are the same.
C9_AsClaimed ==
    pc = "returned" =>
        /\ TableLines[1] = SeparatorLine(2)
        /\ TableLines[3] = TableLines[1]
        /\ TableLines[Len(TableLines)] = TableLines[1]

\* C9 (amended): a separator line is one blank, name_col_width + 2 dashes, one
\* blank, then a blank and time_col_width dashes per time point; lines 1, 3 and
\* the last are the same.
C9_Separator ==
    pc = "returned" =>
        /\ TableLines[1] = SeparatorLine(1)
        /\ TableLines[3] = TableLines[1]
        /\ TableLines[Len(TableLines)] = TableLines[1]

\* a table of two rows over two time points, the name column wider than 8
C9_Witness ==
    /\ pc = "returned"
    /\ Len(Rendered) = 2
    /\ Len(time_points) = 2
    /\ NameWidth = 12

---------------------------------------------------------------------------
(* C10  alignment                                                          *)

\* C10: every line of the table (separators, header, data rows) is
\* name_col_width + 4 + len(time_points) * (time_col_width + 1) characters long.
C10_AsClaimed ==
    pc = "returned" =>
        \A k \in 1..Len(TableLines) :
            Len(TableLines[k]) = NameWidth + 4 + Len(time_points) * (TimeWidth + 1)

=============================================================================
